---------------------------- MODULE Spec2Model ----------------------------
(***************************************************************************)
(* A model of ppgan/datasets/base_dataset.py: the directory scanner         *)
(* scandir (a generator over a directory tree), BaseDataset.scan_folder,    *)
(* and BaseDataset.__init__ / __getitem__ / __len__.                        *)
(*                                                                          *)
(* Strings are sequences of one-character strings, so that startswith,      *)
(* endswith, os.path.join and os.path.relpath are computed character by     *)
(* character as Python computes them.  The filesystem is a finite tree of   *)
(* regular files and directories (no symbolic links, no special files).     *)
(***************************************************************************)
EXTENDS Integers, Sequences, FiniteSets, TLC

VARIABLES
    fs,        \* the directory tree under Root: a sequence of entries, in enumeration order
    caller,    \* "none" | "scandir" (called directly) | "scan_folder"
    args,      \* the arguments of the call: [dir_path, suffix, recursive]
    pc,        \* "idle" (no call yet) | "failed" (the call raised) | the generator's state:
               \* "created" | "running" | "suspended" | "done" | "raised"
    exc,       \* the exception that ended the call or the generator, "none" if none
    stack,     \* the active _scandir frames, outermost first; each holds an open os.scandir iterator
    yielded,   \* the paths handed to the consumer so far, in order
    reads,     \* the directory entries read from the filesystem so far, in order
    opens,     \* the directories opened so far (paths), in order
    stops,     \* the number of StopIterations delivered to the consumer
    outcome,   \* scan_folder: "none" | "returned" | the name of the exception raised
    samples,   \* scan_folder: the list returned
    annotations,   \* BaseDataset.annotations
    pipes,         \* BaseDataset attributes: [has_load, has_transforms]
    cfg,           \* the configs given to BaseDataset.__init__
    log,           \* the pipeline invocations so far: [pipe, input]
    results        \* the getAt calls so far: [idx, value]

scanVars == <<fs, caller, args, pc, exc, stack, yielded, reads, opens, stops, outcome, samples>>
dataVars == <<annotations, pipes, cfg, log, results>>
vars == <<scanVars, dataVars>>

(***************************************************************************)
(* Bounds                                                                   *)
(***************************************************************************)
MaxNodes == 4      \* entries in the directory tree, over all levels
MaxStops == 1      \* next() calls on an exhausted generator
MaxAnn == 2        \* length of the annotations list
MaxCalls == 3      \* getAt calls in one behaviour

(***************************************************************************)
(* Strings                                                                  *)
(***************************************************************************)
Sep == "/"
Dot == "."

N_a_png == <<"a", ".", "p", "n", "g">>
N_b_txt == <<"b", ".", "t", "x", "t">>
N_h_png == <<".", "h", ".", "p", "n", "g">>
N_sub == <<"s", "u", "b">>
N_git == <<".", "g", "i", "t">>
Root == <<"/", "d">>

FileNames == {N_a_png, N_b_txt, N_h_png}
DirNames == {N_sub, N_git}

IMG_EXTENSIONS ==
    << <<".", "j", "p", "g">>, <<".", "J", "P", "G">>,
       <<".", "j", "p", "e", "g">>, <<".", "J", "P", "E", "G">>,
       <<".", "p", "n", "g">>, <<".", "P", "N", "G">>,
       <<".", "p", "p", "m">>, <<".", "P", "P", "M">>,
       <<".", "b", "m", "p">>, <<".", "B", "M", "P">> >>

Range(s) == {s[i] : i \in 1..Len(s)}

\* str.startswith('.')
StartsWithDot(name) == Len(name) > 0 /\ name[1] = Dot

\* mutant: the tail compared without regard to case
Lower(c) == IF c = "P" THEN "p" ELSE IF c = "N" THEN "n" ELSE IF c = "G" THEN "g" ELSE c
TailMatchNoCase(s, t) ==
    /\ Len(t) <= Len(s)
    /\ \A i \in 1..Len(t) : Lower(s[Len(s) - Len(t) + i]) = Lower(t[i])

\* one tail comparison of str.endswith
TailMatch(s, t) ==
    /\ Len(t) <= Len(s)
    /\ \A i \in 1..Len(t) : s[Len(s) - Len(t) + i] = t[i]

\* os.path.join(a, b)
PathJoin(a, b) ==
    IF Len(b) > 0 /\ b[1] = Sep THEN b
    ELSE IF Len(a) = 0 \/ a[Len(a)] = Sep THEN a \o b
    ELSE a \o <<Sep>> \o b

\* str.split('/') with the empty components dropped
RECURSIVE Split(_)
Split(s) ==
    IF Len(s) = 0 THEN <<>>
    ELSE IF s[1] = Sep THEN Split(Tail(s))
    ELSE LET n == CHOOSE k \in 1..Len(s) :
                      /\ \A i \in 1..k : s[i] # Sep
                      /\ (k = Len(s) \/ s[k + 1] = Sep)
         IN <<SubSeq(s, 1, n)>> \o Split(SubSeq(s, n + 1, Len(s)))

RECURSIVE JoinAll(_)
JoinAll(parts) ==
    IF Len(parts) = 0 THEN <<>>
    ELSE IF Len(parts) = 1 THEN parts[1]
    ELSE PathJoin(parts[1], JoinAll(Tail(parts)))

CommonLen(a, b) ==
    LET m == IF Len(a) < Len(b) THEN Len(a) ELSE Len(b)
        S == {k \in 0..m : \A i \in 1..k : a[i] = b[i]}
    IN CHOOSE k \in S : \A j \in S : j <= k

\* os.path.relpath(path, start), both absolute and normalised
RelPath(path, start) ==
    LET start_list == Split(start)
        path_list == Split(path)
        i == CommonLen(start_list, path_list)
        rel_list == [k \in 1..(Len(start_list) - i) |-> <<".", ".">>]
                    \o SubSeq(path_list, i + 1, Len(path_list))
    IN IF Len(rel_list) = 0 THEN <<".">> ELSE JoinAll(rel_list)

(***************************************************************************)
(* The filesystem: every tree of at most MaxNodes entries                   *)
(***************************************************************************)
File(n) == [name |-> n, kind |-> "file", children |-> <<>>]
Dir(n, c) == [name |-> n, kind |-> "dir", children |-> c]

RECURSIVE Forests(_)
Forests(n) ==
    IF n = 0 THEN {<<>>}
    ELSE UNION {
        LET firsts == IF k = 1
                      THEN {File(nm) : nm \in FileNames} \cup {Dir(nm, <<>>) : nm \in DirNames}
                      ELSE {Dir(nm, c) : nm \in DirNames, c \in Forests(k - 1)}
        IN UNION {{<<e>> \o rest : rest \in {r \in Forests(n - k) :
                                        \A j \in 1..Len(r) : r[j].name # e.name}}
                  : e \in firsts}
        : k \in 1..n}

Trees == UNION {Forests(n) : n \in 0..MaxNodes}

(***************************************************************************)
(* Argument values                                                          *)
(***************************************************************************)
Str(s) == [isStr |-> TRUE, s |-> s]
NonStr == [isStr |-> FALSE, s |-> <<>>]          \* e.g. the integer 1

SuffixNone == [type |-> "None", elems |-> <<>>]
SuffixStr(s) == [type |-> "str", elems |-> <<Str(s)>>]
SuffixTuple(es) == [type |-> "tuple", elems |-> es]
SuffixList(es) == [type |-> "list", elems |-> es]

S_png == <<".", "p", "n", "g">>
S_PNG == <<".", "P", "N", "G">>
S_txt == <<".", "t", "x", "t">>

\* the suffix arguments a caller passes
Suffixes ==
    { SuffixNone,
      SuffixStr(S_png),
      SuffixTuple(<<Str(S_txt), Str(S_PNG)>>),
      SuffixTuple(<<Str(S_png), NonStr>>),
      SuffixList(<<Str(S_png)>>) }

\* the dir_path / path arguments a caller passes
PathArgs ==
    { [type |-> "str", val |-> Root],
      [type |-> "Path", val |-> Root],
      [type |-> "int", val |-> <<>>] }

NoArgs == [dir_path |-> [type |-> "none", val |-> <<>>], suffix |-> SuffixNone,
           recursive |-> FALSE]

(***************************************************************************)
(* scandir                                                                  *)
(***************************************************************************)
\* isinstance(v, (str, Path))
IsStrOrPath(v) == v.type \in {"str", "Path"}

\* (suffix is not None) and not isinstance(suffix, (str, tuple))
SuffixRejected(suffix) == suffix.type # "None" /\ suffix.type \notin {"str", "tuple"}

\* rel_path.endswith(suffix): "True", "False" or "TypeError".  With a tuple the
\* elements are tried in order; a non-string element raises when it is reached.
RECURSIVE EndsWithTuple(_, _)
EndsWithTuple(s, elems) ==
    IF Len(elems) = 0 THEN "False"
    ELSE IF ~elems[1].isStr THEN "TypeError"
    ELSE IF TailMatch(s, elems[1].s) THEN "True"
    ELSE EndsWithTuple(s, Tail(elems))

EndsWith(s, suffix) ==
    IF suffix.type = "str"
    THEN (IF TailMatch(s, suffix.elems[1].s) THEN "True" ELSE "False")
    ELSE IF suffix.type = "tuple" THEN EndsWithTuple(s, suffix.elems)
    ELSE "TypeError"

\* The body of scandir up to its return: the state of the call.
Scandir(dir_path, suffix, recursive) ==
    IF ~IsStrOrPath(dir_path) THEN [pc |-> "failed", exc |-> "TypeError"]
    ELSE IF SuffixRejected(suffix) THEN [pc |-> "failed", exc |-> "TypeError"]
    ELSE [pc |-> "created", exc |-> "none"]

\* mutant: a directory is entered whether or not recursive is set
BranchAlwaysRecursive(entry, rel_path, suffix, recursive) ==
    IF ~StartsWithDot(entry.name) /\ entry.kind = "file"
    THEN IF suffix.type = "None" THEN "yield"
         ELSE LET r == EndsWith(rel_path, suffix)
              IN IF r = "True" THEN "yield"
                 ELSE IF r = "False" THEN "continue"
                 ELSE "TypeError"
    ELSE "recurse"

\* One iteration of the for loop of _scandir, on the entry just read:
\* what the loop body does with it.
Branch(entry, rel_path, suffix, recursive) ==
    IF ~StartsWithDot(entry.name) /\ entry.kind = "file"
    THEN IF suffix.type = "None" THEN "yield"
         ELSE LET r == EndsWith(rel_path, suffix)
              IN IF r = "True" THEN "yield"
                 ELSE IF r = "False" THEN "continue"
                 ELSE "TypeError"
    ELSE IF recursive THEN "recurse"
         ELSE "continue"

\* os.scandir(path) on an entry: a directory opens, anything else raises.
OsScandir(entry) == IF entry.kind = "dir" THEN "opened" ELSE "NotADirectoryError"

\* mutant: the matching path is collected without suspending the generator
PcAfterNoSuspend(entry, branch) ==
    IF branch = "TypeError" THEN "raised"
    ELSE IF branch = "recurse" /\ OsScandir(entry) # "opened" THEN "raised"
    ELSE "running"

\* Where the generator stands after the loop body: a yield suspends it, an
\* exception ends it, anything else goes on to the next entry.
PcAfter(entry, branch) ==
    IF branch = "yield" THEN "suspended"
    ELSE IF branch = "TypeError" THEN "raised"
    ELSE IF branch = "recurse" /\ OsScandir(entry) # "opened" THEN "raised"
    ELSE "running"

Frame(path, entries) == [dir_path |-> path, entries |-> entries, pos |-> 0]

Top == stack[Len(stack)]
Pop(st) == SubSeq(st, 1, Len(st) - 1)

\* The frames left when the innermost os.scandir iterator is exhausted: the
\* iterator closes its handle and the frame returns.
AfterExhaust(st) == Pop(st)

\* mutant: an exception leaves the open iterators behind
AfterReadLeaking(st, entry, path, branch) ==
    LET top == st[Len(st)]
        adv == [st EXCEPT ![Len(st)] = [top EXCEPT !.pos = top.pos + 1]]
    IN IF branch = "recurse" /\ OsScandir(entry) = "opened"
       THEN Append(adv, Frame(path, entry.children))
       ELSE adv

\* The frames after the loop body has read one more entry of the innermost frame
\* and, for "recurse" on a directory, has entered it.
AfterRead(st, entry, path, branch) ==
    LET top == st[Len(st)]
        adv == [st EXCEPT ![Len(st)] = [top EXCEPT !.pos = top.pos + 1]]
    IN IF branch = "TypeError" THEN <<>>
       ELSE IF branch = "recurse"
            THEN (IF OsScandir(entry) = "opened"
                  THEN Append(adv, Frame(path, entry.children))
                  ELSE <<>>)
       ELSE adv

\* A direct call of scandir(dir_path, suffix, recursive).
ScandirCall ==
    /\ caller = "none"
    /\ \E d \in PathArgs, s \in Suffixes, r \in BOOLEAN :
         LET c == Scandir(d, s, r)
         IN /\ args' = [dir_path |-> d, suffix |-> s, recursive |-> r]
            /\ pc' = c.pc
            /\ exc' = c.exc
    /\ caller' = "scandir"
    /\ UNCHANGED <<fs, stack, yielded, reads, opens, stops, outcome, samples, dataVars>>

\* The first next(): the body of _scandir starts and os.scandir opens the root.
Start ==
    /\ pc = "created"
    /\ pc' = "running"
    /\ stack' = <<Frame(args.dir_path.val, fs)>>
    /\ opens' = Append(opens, args.dir_path.val)
    /\ UNCHANGED <<fs, caller, args, exc, yielded, reads, stops, outcome, samples, dataVars>>

\* A later next(): the generator resumes after its yield.
Resume ==
    /\ pc = "suspended"
    /\ pc' = "running"
    /\ UNCHANGED <<fs, caller, args, exc, stack, yielded, reads, opens, stops, outcome,
                   samples, dataVars>>

\* The for loop reads the next entry of the innermost directory and runs its body.
ReadEntry ==
    /\ pc = "running"
    /\ Len(stack) > 0
    /\ Top.pos < Len(Top.entries)
    /\ LET entry == Top.entries[Top.pos + 1]
           path == PathJoin(Top.dir_path, entry.name)
           rel_path == RelPath(path, args.dir_path.val)
           b == Branch(entry, rel_path, args.suffix, args.recursive)
       IN /\ reads' = Append(reads, [path |-> path, name |-> entry.name, kind |-> entry.kind])
          /\ stack' = AfterRead(stack, entry, path, b)
          /\ yielded' = IF b = "yield" THEN Append(yielded, rel_path) ELSE yielded
          /\ opens' = IF b = "recurse" /\ OsScandir(entry) = "opened"
                      THEN Append(opens, path) ELSE opens
          /\ pc' = PcAfter(entry, b)
          /\ exc' = IF b = "TypeError" THEN "TypeError"
                    ELSE IF b = "recurse" /\ OsScandir(entry) # "opened" THEN OsScandir(entry)
                    ELSE exc
    /\ UNCHANGED <<fs, caller, args, stops, outcome, samples, dataVars>>

\* The innermost os.scandir iterator is exhausted: its frame returns; the
\* generator ends when the outermost frame returns.
Exhaust ==
    /\ pc = "running"
    /\ Len(stack) > 0
    /\ Top.pos = Len(Top.entries)
    /\ stack' = AfterExhaust(stack)
    /\ pc' = IF Len(stack') = 0 THEN "done" ELSE "running"
    /\ UNCHANGED <<fs, caller, args, exc, yielded, reads, opens, stops, outcome, samples,
                   dataVars>>

\* next() on a generator that has ended: StopIteration, nothing else.
NextAfterEnd ==
    /\ caller = "scandir"
    /\ pc \in {"done", "raised"}
    /\ stops < MaxStops
    /\ stops' = stops + 1
    /\ UNCHANGED <<fs, caller, args, pc, exc, stack, yielded, reads, opens, outcome, samples,
                   dataVars>>

\* scan_folder up to its call of scandir: the type check of path, then
\* scandir(path, suffix=IMG_EXTENSIONS, recursive=True).
ImgSuffix == SuffixTuple([i \in 1..Len(IMG_EXTENSIONS) |-> Str(IMG_EXTENSIONS[i])])

ScanFolderEnter(path) ==
    IF ~IsStrOrPath(path) THEN [pc |-> "idle", exc |-> "none", outcome |-> "TypeError"]
    ELSE LET c == Scandir(path, ImgSuffix, TRUE)
         IN [pc |-> c.pc, exc |-> c.exc, outcome |-> "none"]

\* scan_folder after list(...) has drained the generator: the join with path
\* and the assertion.
ScanFolderLeave(path, gen_pc, gen_exc, rels) ==
    IF gen_pc # "done" THEN [outcome |-> gen_exc, samples |-> <<>>]
    ELSE LET joined == [i \in 1..Len(rels) |-> PathJoin(path.val, rels[i])]
         IN IF Len(joined) = 0 THEN [outcome |-> "AssertionError", samples |-> <<>>]
            ELSE [outcome |-> "returned", samples |-> joined]

ScanFolderCall ==
    /\ caller = "none"
    /\ caller' = "scan_folder"
    /\ \E p \in PathArgs :
         LET c == ScanFolderEnter(p)
         IN /\ args' = [dir_path |-> p, suffix |-> ImgSuffix, recursive |-> TRUE]
            /\ pc' = c.pc
            /\ exc' = c.exc
            /\ outcome' = c.outcome
    /\ UNCHANGED <<fs, stack, yielded, reads, opens, stops, samples, dataVars>>

ScanFolderReturn ==
    /\ caller = "scan_folder"
    /\ outcome = "none"
    /\ pc \in {"done", "raised", "failed"}
    /\ LET r == ScanFolderLeave(args.dir_path, pc, exc, yielded)
       IN outcome' = r.outcome /\ samples' = r.samples
    /\ UNCHANGED <<fs, caller, args, pc, exc, stack, yielded, reads, opens, stops, dataVars>>

(***************************************************************************)
(* BaseDataset                                                              *)
(***************************************************************************)
\* The configs __init__ may be given: None, [] or a non-empty list of steps.
Configs == {"None", "empty", "steps"}
Truthy(config) == config = "steps"

\* Annotations and pipeline results are words: a pipeline is an opaque function,
\* its application appends its letter, so that order and repetition show.
AnnValues == {<<"x">>, <<"y">>}
load_pipeline(datas) == Append(datas, "L")
transforms(datas) == Append(datas, "T")

\* BaseDataset.__init__: which attributes the object gets.
InitDataset(load_cfg, transforms_cfg) ==
    [has_load |-> Truthy(load_cfg), has_transforms |-> Truthy(transforms_cfg)]

\* mutant: the transform pipeline runs before the load pipeline
GetItemValueReversed(self, anns, idx) ==
    LET d0 == anns[idx]
        useT == self.has_transforms
        d1 == IF useT THEN transforms(d0) ELSE d0
        useL == self.has_load
        d2 == IF useL THEN load_pipeline(d1) ELSE d1
    IN [value |-> d2,
        calls |-> (IF useT THEN <<[pipe |-> "transforms", input |-> d0]>> ELSE <<>>)
                  \o (IF useL THEN <<[pipe |-> "load_pipeline", input |-> d1]>> ELSE <<>>)]

\* BaseDataset.__getitem__: the value returned and the pipeline calls made.
GetItemValue(self, anns, idx) ==
    LET d0 == anns[idx]
        useL == self.has_load
        d1 == IF useL THEN load_pipeline(d0) ELSE d0
        useT == self.has_transforms
        d2 == IF useT THEN transforms(d1) ELSE d1
    IN [value |-> d2,
        calls |-> (IF useL THEN <<[pipe |-> "load_pipeline", input |-> d0]>> ELSE <<>>)
                  \o (IF useT THEN <<[pipe |-> "transforms", input |-> d1]>> ELSE <<>>)]

\* BaseDataset.__len__
DatasetLen(anns) == Len(anns)

\* mutant: the processed sample is stored back in place of the raw annotation
GetItemCaching(idx) ==
    /\ Len(results) < MaxCalls
    /\ LET d0 == annotations[idx]
           d1 == IF pipes.has_load THEN load_pipeline(d0) ELSE d0
           d2 == IF pipes.has_transforms THEN transforms(d1) ELSE d1
       IN /\ results' = Append(results, [idx |-> idx, value |-> d2])
          /\ log' = Append(log,
                (IF pipes.has_load THEN <<[pipe |-> "load_pipeline", input |-> d0]>> ELSE <<>>)
                \o (IF pipes.has_transforms THEN <<[pipe |-> "transforms", input |-> d1]>> ELSE <<>>))
          /\ annotations' = [annotations EXCEPT ![idx] = d2]
    /\ UNCHANGED <<pipes, cfg, scanVars>>

\* One getAt(idx) call.
GetItem(idx) ==
    /\ Len(results) < MaxCalls
    /\ LET r == GetItemValue(pipes, annotations, idx)
       IN /\ results' = Append(results, [idx |-> idx, value |-> r.value])
          /\ log' = Append(log, r.calls)
    /\ UNCHANGED <<annotations, pipes, cfg, scanVars>>

NextScan == ScandirCall \/ Start \/ Resume \/ ReadEntry \/ Exhaust \/ NextAfterEnd
            \/ ScanFolderCall \/ ScanFolderReturn

NextData == \E idx \in 1..DatasetLen(annotations) : GetItem(idx)

NoData == annotations = <<>> /\ pipes = InitDataset("None", "None")
          /\ cfg = [load_pipeline |-> "None", transforms |-> "None"]
          /\ log = <<>> /\ results = <<>>

NoScan == fs = <<>> /\ caller = "none" /\ args = NoArgs /\ pc = "idle" /\ exc = "none"
          /\ stack = <<>> /\ yielded = <<>> /\ reads = <<>> /\ opens = <<>> /\ stops = 0
          /\ outcome = "none" /\ samples = <<>>

Init ==
    /\ fs \in Trees
    /\ caller = "none" /\ args = NoArgs /\ pc = "idle" /\ exc = "none"
    /\ stack = <<>> /\ yielded = <<>> /\ reads = <<>> /\ opens = <<>> /\ stops = 0
    /\ outcome = "none" /\ samples = <<>>
    /\ NoData

InitData ==
    /\ NoScan
    /\ cfg \in [load_pipeline : Configs, transforms : Configs]
    /\ pipes = InitDataset(cfg.load_pipeline, cfg.transforms)
    /\ annotations \in UNION {[1..n -> AnnValues] : n \in 1..MaxAnn}
    /\ log = <<>> /\ results = <<>>

Next == NextScan
Spec == Init /\ [][Next]_vars
DataSpec == InitData /\ [][NextData]_vars
(***************************************************************************)
(* What the filesystem holds, read off the tree itself                      *)
(***************************************************************************)
\* Every entry of the tree with its path relative to the root.
RECURSIVE Listing(_, _)
Listing(entries, prefix) ==
    UNION {
        {[rel |-> prefix \o entries[i].name, name |-> entries[i].name,
          kind |-> entries[i].kind]}
        \cup Listing(entries[i].children, prefix \o entries[i].name \o <<Sep>>)
        : i \in 1..Len(entries)}

AllEntries == Listing(fs, <<>>)
Hidden(name) == name[1] = Dot
PlainFiles == {e \in AllEntries : e.kind = "file" /\ ~Hidden(e.name)}
HasSuffix(s, t) == Len(t) <= Len(s) /\ SubSeq(s, Len(s) - Len(t) + 1, Len(s)) = t
ImageFiles == {e \in PlainFiles : \E k \in 1..Len(IMG_EXTENSIONS) : HasSuffix(e.name, IMG_EXTENSIONS[k])}
HasSep(s) == \E i \in 1..Len(s) : s[i] = Sep
\* a path with a component that starts with '.'
HasHiddenPart(s) ==
    \E i \in 1..Len(s) : s[i] = Dot /\ (i = 1 \/ s[i - 1] = Sep)
\* the part of an absolute path below the root
Below(path) == SubSeq(path, Len(Root) + 2, Len(path))
NoDup(q) == \A i, j \in 1..Len(q) : q[i] = q[j] => i = j
Last(q) == q[Len(q)]
Ended == pc \in {"done", "raised"}

(***************************************************************************)
(* Claims                                                                   *)
(***************************************************************************)

\* C1: scan_folder(path) fails with an assertion failure when the tree holds no
\* file matching the image-suffix list and otherwise returns a non-empty list
\* whose entries are path joined with a matching file's relative path, also
\* when hidden and non-image files sit next to the matching ones.
C1_ScanFolderResult ==
    (caller = "scan_folder" /\ IsStrOrPath(args.dir_path) /\ outcome # "none") =>
        IF ImageFiles = {}
        THEN outcome = "AssertionError"
        ELSE /\ outcome = "returned"
             /\ Len(samples) > 0
             /\ \A i \in 1..Len(samples) :
                  \E e \in ImageFiles : samples[i] = Root \o <<Sep>> \o e.rel

\* C2: a hidden entry is always skipped whatever its type: a hidden file is
\* never yielded, a hidden directory is never entered (nothing below it is
\* yielded), and meeting a hidden entry never makes the scan fail.
C2_HiddenSkipped ==
    /\ \A i \in 1..Len(yielded) : ~HasHiddenPart(yielded[i])
    /\ \A i \in 1..Len(opens) : ~HasHiddenPart(Below(opens[i]))
    /\ ~(pc = "raised" /\ Len(reads) > 0 /\ Hidden(Last(reads).name))

\* C3: with recursive=true and no suffix filter the finished scan has yielded
\* every regular non-hidden file of the tree exactly once, each as its path
\* relative to the original root, and nothing else.
C3_AllFilesOnce ==
    (caller = "scandir" /\ Ended /\ args.recursive /\ args.suffix = SuffixNone) =>
        /\ NoDup(yielded)
        /\ Range(yielded) = {e.rel : e \in PlainFiles}

\* C5: with recursive=false no subdirectory is entered: every yielded path names
\* a file directly in D (no separator in it), and no directory entry of D is
\* yielded or descended into.
C5_NoDescent ==
    (caller = "scandir" /\ ~args.recursive) =>
        /\ \A i \in 1..Len(yielded) :
             /\ ~HasSep(yielded[i])
             /\ \E j \in 1..Len(fs) : fs[j].kind = "file" /\ fs[j].name = yielded[i]
        /\ \A i \in 1..Len(opens) : opens[i] = Root
        /\ Len(stack) <= 1
        /\ \A i \in 1..Len(reads) : ~HasSep(Below(reads[i].path))

C5_Witness ==
    /\ caller = "scandir" /\ ~args.recursive /\ pc = "done"
    /\ Len(yielded) > 0
    /\ \E j \in 1..Len(fs) : fs[j].kind = "dir" /\ Len(fs[j].children) > 0
                             /\ fs[j].children[1].kind = "file"
                             /\ ~Hidden(fs[j].name) /\ ~Hidden(fs[j].children[1].name)

\* C6: with a suffix filter S (one string or a tuple of strings) a regular
\* non-hidden file reached by the scan is yielded if and only if its relative
\* path ends with one of the suffixes of S, compared case-sensitively; with no
\* suffix every regular non-hidden file reached is yielded.
SuffixOfStrings(suffix) ==
    /\ suffix.type \in {"str", "tuple"}
    /\ \A k \in 1..Len(suffix.elems) : suffix.elems[k].isStr
Matches(rel, suffix) ==
    suffix.type = "None" \/ \E k \in 1..Len(suffix.elems) : HasSuffix(rel, suffix.elems[k].s)
C6_SuffixFilter ==
    (caller = "scandir" /\ (args.suffix = SuffixNone \/ SuffixOfStrings(args.suffix))) =>
        \A i \in 1..Len(reads) :
            (reads[i].kind = "file" /\ ~Hidden(reads[i].name)) =>
                ((\E j \in 1..Len(yielded) : yielded[j] = Below(reads[i].path))
                    <=> Matches(Below(reads[i].path), args.suffix))

C6_Witness ==
    /\ caller = "scandir" /\ args.suffix = SuffixTuple(<<Str(S_txt), Str(S_PNG)>>)
    /\ Ended
    /\ \E i, j \in 1..Len(reads) :
         /\ reads[i].name = N_a_png /\ Below(reads[i].path) \notin Range(yielded)
         /\ reads[j].name = N_b_txt /\ Below(reads[j].path) \in Range(yielded)
         /\ HasSep(Below(reads[j].path))

\* C7: a call of scandir whose dir_path is neither a string nor path-like, or
\* whose suffix is given and is not a string or a tuple of strings (a tuple
\* holding a non-string included), fails with a TypeError at the call, before
\* any directory is opened or entry read; scan_folder likewise for its path.
BadArguments ==
    \/ ~IsStrOrPath(args.dir_path)
    \/ caller = "scandir" /\ args.suffix # SuffixNone /\ ~SuffixOfStrings(args.suffix)
C7_TypeErrorAtCall ==
    (caller # "none" /\ BadArguments) =>
        /\ opens = <<>> /\ reads = <<>> /\ yielded = <<>>
        /\ IF caller = "scandir" THEN pc = "failed" /\ exc = "TypeError"
           ELSE pc = "idle" /\ outcome = "TypeError"

\* C8 (as stated): a directory handle is released before the scan proceeds: the
\* handle of a parent directory is never open while a child directory is being
\* enumerated, so the number of open handles does not grow with nesting depth.
C8_OneHandleAtATime == Len(stack) <= 1

\* C8 (amended): a directory's handle stays open until its entries are
\* exhausted; while a directory is being enumerated the open handles are those
\* of that directory and of all its ancestors up to the root, one per nesting
\* level, and none is open before the scan starts or once it has ended.
C8_HandlesAlongThePath ==
    /\ pc \in {"idle", "failed", "created", "done", "raised"} => stack = <<>>
    /\ pc \in {"running", "suspended"} /\ Len(stack) > 0 => stack[1].dir_path = args.dir_path.val
    /\ \A i \in 1..Len(stack) - 1 :
         /\ stack[i].pos > 0
         /\ stack[i].entries[stack[i].pos].kind = "dir"
         /\ stack[i + 1].dir_path
              = stack[i].dir_path \o <<Sep>> \o stack[i].entries[stack[i].pos].name
         /\ stack[i + 1].entries = stack[i].entries[stack[i].pos].children
    /\ Len(stack) <= MaxNodes + 1

C8_Witness ==
    /\ Len(stack) >= 3
    /\ pc = "suspended"
    /\ HasSep(Last(yielded))

\* C9: scandir is lazy: the call opens no directory and reads no entry before
\* the first element is asked for; when a path is handed to the caller the
\* entry it names is the last one read; the entries read never exceed those of
\* the tree, and once the generator has ended nothing more is read or yielded.
C9_LazyState ==
    /\ pc = "created" => opens = <<>> /\ reads = <<>> /\ yielded = <<>>
    /\ pc = "suspended" =>
         /\ Len(reads) > 0 /\ Len(yielded) > 0
         /\ Below(Last(reads).path) = Last(yielded)
    /\ Len(reads) <= Cardinality(AllEntries)
    /\ Len(yielded) <= Len(reads)
    /\ NoDup([i \in 1..Len(reads) |-> reads[i].path])
C9_LazyStep ==
    /\ yielded' # yielded =>
         /\ pc = "running" /\ pc' = "suspended"
         /\ Len(yielded') = Len(yielded) + 1
         /\ Len(reads') = Len(reads) + 1
    /\ (reads' # reads \/ opens' # opens) => pc \in {"created", "running"}
    /\ Ended => (yielded' = yielded /\ reads' = reads /\ opens' = opens /\ pc' = pc)
C9_Lazy == [](C9_LazyState) /\ [][C9_LazyStep]_vars

C9_Witness ==
    /\ caller = "scandir" /\ pc = "done" /\ stops >= 1
    /\ Len(yielded) >= 2 /\ Len(reads) > Len(yielded)

(***************************************************************************)
(* Claims about BaseDataset, under DataSpec                                 *)
(***************************************************************************)
Given(config) == config = "steps"

\* C4: getAt(i) returns annotations[i] passed through the load pipeline if one
\* was configured and then through the transform pipeline if one was
\* configured, for each of the four combinations of given/absent configs; the
\* transform pipeline never runs before the load pipeline and an absent
\* pipeline is never invoked.
C4_LoadThenTransform ==
    \A k \in 1..Len(results) :
        LET a == annotations[results[k].idx]
            L == Given(cfg.load_pipeline)
            T == Given(cfg.transforms)
            names == [j \in 1..Len(log[k]) |-> log[k][j].pipe]
        IN /\ results[k].value =
                 IF L /\ T THEN a \o <<"L", "T">>
                 ELSE IF L THEN a \o <<"L">>
                 ELSE IF T THEN a \o <<"T">>
                 ELSE a
           /\ names = (IF L THEN <<"load_pipeline">> ELSE <<>>)
                      \o (IF T THEN <<"transforms">> ELSE <<>>)

C4_Witness ==
    /\ Given(cfg.load_pipeline) /\ Given(cfg.transforms)
    /\ Len(results) >= 1
    /\ results[1].idx = 2
    /\ results[1].value = annotations[2] \o <<"L", "T">>

\* C10: getAt keeps no cache and changes no dataset state: annotations (entries,
\* order, length) and the stored pipelines stay as they are, every call invokes
\* each configured pipeline exactly once starting from the raw annotations[i],
\* and equal indices give equal values whatever calls came before.
C10_NoCacheState ==
    /\ \A k \in 1..Len(results) :
         /\ Len(log[k]) = (IF pipes.has_load THEN 1 ELSE 0)
                          + (IF pipes.has_transforms THEN 1 ELSE 0)
         /\ Len(log[k]) > 0 => log[k][1].input = annotations[results[k].idx]
    /\ \A j, k \in 1..Len(results) :
         results[j].idx = results[k].idx => results[j].value = results[k].value
C10_NoCacheStep ==
    /\ annotations' = annotations
    /\ DatasetLen(annotations') = DatasetLen(annotations)
    /\ pipes' = pipes
C10_NoCache == [](C10_NoCacheState) /\ [][C10_NoCacheStep]_vars

C10_Witness ==
    /\ pipes.has_load /\ pipes.has_transforms
    /\ Len(results) >= 3
    /\ results[1].idx = results[3].idx /\ results[2].idx # results[1].idx

=============================================================================
